---------------------------- MODULE Spec2Model ----------------------------
(***************************************************************************)
(* A model of the handmade_blockchain core (package hb): the hashing       *)
(* primitive, the compact "bits" codec, the block header encoding and      *)
(* hash, Block.from_dict, get_target, made_merkle_root, the base58 address *)
(* codec and the mining engine (create_genesis_block, create_block,        *)
(* mining_block).                                                          *)
(*                                                                         *)
(* Scale.  The program works on 8-bit bytes, 32-byte digests, 32-bit       *)
(* nonces and 256-bit targets.  The model keeps every layout and every     *)
(* formula of the code and shrinks the alphabet sizes: a byte has          *)
(* ByteBase values instead of 256, a hex digit HexBase values instead of   *)
(* 16 (ByteBase = HexBase^2, as 256 = 16^2), a digest HashLen bytes        *)
(* instead of 32, and so on.  Shifts by 8*k bits are multiplications by    *)
(* ByteBase^k and masks with 0xff..ff are remainders modulo ByteBase^k.    *)
(* Python integers are unbounded, so no operation of the model wraps.      *)
(***************************************************************************)
EXTENDS Integers, Sequences, FiniteSets, TLC

\* the state of the mining engine (described with its actions below)
VARIABLES op, pc, err, ledger, block, target, start, i, nonce_found, depth, tried,
          exhausted
\* the state of one Block.from_dict call
VARIABLES fd_dict, fd_block_hash, fd_result
\* the ledger handed to get_target and what the call gave
VARIABLES gt_blocks, gt_result
\* the frames of one made_merkle_root call
VARIABLES mk_pc, mk_leaves, mk_txs, mk_k, mk_one, mk_result, mk_depth, mk_root
\* one address, where it came from, and what b58_address_to_hash160 gave
VARIABLES ad_addr, ad_h160, ad_result
\* a block, the block as it was handed to block_hash, and the hash that gave
VARIABLES bh_block, bh_given, bh_hash

(***************************************************************************)
(* Bounds of the model (each stands for the program value in brackets).    *)
(***************************************************************************)
\* values of one hex digit [16]
HexBase == 3
\* bytes of a sha256d digest [32]
HashLen == 2
\* largest exponent byte bits_to_target accepts [0x1f]
MaxBitsN == 5
\* largest nonce, the 0xffffffff of mining_block [2^32 - 1]
MaxNonce == 3
\* nested mining_block calls the interpreter allows [sys.getrecursionlimit()]
RecursionLimit == 3
\* letters of the base58 alphabet [58]
B58 == 3
\* bytes of a hash160 [20]
Hash160Len == 2
\* bytes of an address checksum [4]
ChecksumLen == 1
\* largest block timestamp drawn
MaxTime == 2
\* longest list of leaf hashes handed to made_merkle_root
MaxLeaves == 5

\* values of one byte [256]
ByteBase == HexBase * HexBase
Byte == 0..(ByteBase - 1)

RECURSIVE Pow(_, _)
Pow(b, e) == IF e = 0 THEN 1 ELSE b * Pow(b, e - 1)

Min(a, b) == IF a < b THEN a ELSE b
Max(a, b) == IF a > b THEN a ELSE b

(***************************************************************************)
(* Results of operations that may raise: Ok(v) or Raise(e).                *)
(***************************************************************************)
Ok(v) == [ok |-> TRUE, val |-> v, err |-> ""]
Raise(e) == [ok |-> FALSE, val |-> 0, err |-> e]

(***************************************************************************)
(* bytes helpers: int.to_bytes(n, "little"), int.from_bytes(b, "big"),     *)
(* b[::-1] and n bytes of zero.                                            *)
(***************************************************************************)
Fits(num, n) == num >= 0 /\ num < Pow(ByteBase, n)
to_bytes_little(num, n) == [k \in 1..n |-> (num \div Pow(ByteBase, k - 1)) % ByteBase]
Reverse(s) == [k \in 1..Len(s) |-> s[Len(s) + 1 - k]]
to_bytes_big(num, n) == Reverse(to_bytes_little(num, n))

RECURSIVE from_bytes_big(_)
from_bytes_big(b) ==
    IF b = <<>> THEN 0
    ELSE from_bytes_big(SubSeq(b, 1, Len(b) - 1)) * ByteBase + b[Len(b)]

Zeros(n) == [k \in 1..n |-> 0]

(***************************************************************************)
(* sha256 and sha256d.  SHA-256 itself is replaced by a fixed absorbing    *)
(* function over byte strings with a HashLen-byte result: deterministic,   *)
(* sensitive to every byte and to their order.  sha256d applies it twice,  *)
(* as the code does.                                                       *)
(***************************************************************************)
HashSpace == Pow(ByteBase, HashLen)

\* b^e modulo HashSpace, by squaring
RECURSIVE PowMod(_, _)
PowMod(b, e) ==
    IF e = 0 THEN 1 % HashSpace
    ELSE LET h == PowMod(b, e \div 2) IN
         IF e % 2 = 0 THEN (h * h) % HashSpace ELSE (((h * h) % HashSpace) * b) % HashSpace

\* the bytes x[lo..hi] absorbed into 0: each byte multiplies the state by
\* ByteBase + 1 and adds the byte plus one (computed by halves)
RECURSIVE AbsorbRange(_, _, _)
AbsorbRange(x, lo, hi) ==
    IF lo > hi THEN 0
    ELSE IF lo = hi THEN (x[lo] + 1) % HashSpace
    ELSE LET mid == (lo + hi) \div 2 IN
         (AbsorbRange(x, lo, mid) * PowMod(ByteBase + 1, hi - mid)
             + AbsorbRange(x, mid + 1, hi)) % HashSpace

Absorb(acc, x) ==
    (acc * PowMod(ByteBase + 1, Len(x)) + AbsorbRange(x, 1, Len(x))) % HashSpace

sha256(x) == to_bytes_big(Absorb(Len(x) % HashSpace, x), HashLen)
sha256d(x) == sha256(sha256(x))

(***************************************************************************)
(* The compact bits codec.                                                 *)
(***************************************************************************)
\* 0x03, the smallest exponent byte
MinBitsN == 3
\* 0x8000 and 0x7fffff, the mantissa range; 0x800000, the sign bit
MinBitsBase == Pow(ByteBase, 2) \div 2
MaxBitsBase == (Pow(ByteBase, 3) \div 2) - 1
SignBit == Pow(ByteBase, 3) \div 2

bitsN_of(bits) == (bits \div Pow(ByteBase, 3)) % ByteBase
bitsBase_of(bits) == bits % Pow(ByteBase, 3)

bits_to_target(bits) ==
    IF ~(MinBitsN <= bitsN_of(bits) /\ bitsN_of(bits) <= MaxBitsN)
    THEN Raise("First part of bits should be in [0x03, 0x1f]")
    ELSE IF ~(MinBitsBase <= bitsBase_of(bits) /\ bitsBase_of(bits) <= MaxBitsBase)
    THEN Raise("Second part of bits should be in [0x8000, 0x7fffff]")
    ELSE Ok(bitsBase_of(bits) * Pow(ByteBase, bitsN_of(bits) - MinBitsN))

\* the compact value with exponent byte n and mantissa base
CompactBits(n, base) == n * Pow(ByteBase, 3) + base

(***************************************************************************)
(* target_to_bits is imported by block.py from util.py, which does not     *)
(* define it.  Modelled from the specification: the significant bytes of   *)
(* the target, exponent = their number, mantissa = the leading three; a    *)
(* mantissa with the sign bit set is shifted right one byte and the        *)
(* exponent incremented.                                                   *)
(***************************************************************************)
RECURSIVE SignificantBytes(_)
SignificantBytes(t) == IF t = 0 THEN 0 ELSE 1 + SignificantBytes(t \div ByteBase)

LeadingThree(t) ==
    LET n == SignificantBytes(t) IN
    IF n >= 3 THEN t \div Pow(ByteBase, n - 3) ELSE t

target_to_bits(t) ==
    LET n == SignificantBytes(t)
        m == LeadingThree(t) IN
    IF m >= SignBit THEN CompactBits(n + 1, m \div ByteBase) ELSE CompactBits(n, m)

(***************************************************************************)
(* util.int_to_bytes: the variable-length count (0xfd, 0xfe, 0xff are the  *)
(* three largest byte values).                                             *)
(***************************************************************************)
int_to_bytes(num) ==
    IF num < ByteBase - 3 THEN to_bytes_little(num, 1)
    ELSE IF num <= Pow(ByteBase, 2) - 1
    THEN to_bytes_little(ByteBase - 3, 1) \o to_bytes_little(num, 2)
    ELSE IF num <= Pow(ByteBase, 4) - 1
    THEN to_bytes_little(ByteBase - 2, 1) \o to_bytes_little(num, 4)
    ELSE to_bytes_little(ByteBase - 1, 1) \o to_bytes_little(num, 8)

(***************************************************************************)
(* Transactions (tx.py): OutPoint, TxIn, TxOut, Tx and their encodings.    *)
(***************************************************************************)
\* 0xffffffff, the largest 4-byte value
UInt32Max == Pow(ByteBase, 4) - 1

OutPoint_as_bin(outpoint) == outpoint.tx_hash \o to_bytes_little(outpoint.index, 4)

TxIn_as_bin(tx_in) ==
    OutPoint_as_bin(tx_in.outpoint) \o int_to_bytes(Len(tx_in.script_sig))
        \o tx_in.script_sig \o to_bytes_little(tx_in.sequence, 4)

TxOut_as_bin(tx_out) ==
    to_bytes_little(tx_out.value, 8) \o int_to_bytes(Len(tx_out.script_pubkey))
        \o tx_out.script_pubkey

RECURSIVE ConcatAll(_)
ConcatAll(ss) == IF ss = <<>> THEN <<>> ELSE Head(ss) \o ConcatAll(Tail(ss))

Tx_as_bin(tx) ==
    to_bytes_little(tx.version, 4)
        \o int_to_bytes(Len(tx.tx_ins))
        \o ConcatAll([k \in 1..Len(tx.tx_ins) |-> TxIn_as_bin(tx.tx_ins[k])])
        \o int_to_bytes(Len(tx.tx_outs))
        \o ConcatAll([k \in 1..Len(tx.tx_outs) |-> TxOut_as_bin(tx.tx_outs[k])])
        \o to_bytes_little(tx.locktime, 4)

tx_hash(tx) == sha256(sha256(Tx_as_bin(tx)))

create_coinbase_tx(script_sig, script_pubkey, reward) ==
    [version |-> 1,
     tx_ins |-> << [outpoint |-> [tx_hash |-> Zeros(HashLen), index |-> UInt32Max],
                    script_sig |-> script_sig,
                    sequence |-> UInt32Max] >>,
     tx_outs |-> << [value |-> reward, script_pubkey |-> script_pubkey] >>,
     locktime |-> 0]

(***************************************************************************)
(* Blocks (block.py): the header encoding _as_bin and block_hash.          *)
(***************************************************************************)
\* as_bin, lines 92-96: the header followed by the transactions
Block_as_bin_full(b) ==
    to_bytes_little(b.version, 4)
        \o b.hash_prev_block
        \o b.hash_merkle_root
        \o to_bytes_little(b.time, 4)
        \o to_bytes_little(b.bits, 4)
        \o to_bytes_little(b.nonce, 4)
        \o int_to_bytes(Len(b.transactions))
        \o ConcatAll([k \in 1..Len(b.transactions) |-> Tx_as_bin(b.transactions[k])])

Block_as_bin(b) ==
    to_bytes_little(b.version, 4)
        \o b.hash_prev_block
        \o b.hash_merkle_root
        \o to_bytes_little(b.time, 4)
        \o to_bytes_little(b.bits, 4)
        \o to_bytes_little(b.nonce, 4)

block_hash(b) == sha256d(Block_as_bin(b))

\* int.from_bytes(block.block_hash(), "big")
block_hash_int(b) == from_bytes_big(block_hash(b))

(***************************************************************************)
(* The base58 address codec (address.py).  A letter of an address is its   *)
(* index in __b58chars (what chars.find returns); the value B58 stands for *)
(* a character outside the alphabet.                                       *)
(***************************************************************************)
\* 25 = 1 version byte + hash160 + checksum, and 21 = 1 version byte + hash160
AddrLen == 1 + Hash160Len + ChecksumLen
PayloadLen == 1 + Hash160Len

RECURSIVE DigitsLittle(_, _)
DigitsLittle(long_value, base) ==
    IF long_value >= base
    THEN <<long_value % base>> \o DigitsLittle(long_value \div base, base)
    ELSE <<long_value>>

RECURSIVE FromDigitsBig(_, _)
FromDigitsBig(v, base) ==
    IF v = <<>> THEN 0
    ELSE FromDigitsBig(SubSeq(v, 1, Len(v) - 1), base) * base + v[Len(v)]

RECURSIVE LeadingCount(_, _)
LeadingCount(v, c) ==
    IF v # <<>> /\ Head(v) = c THEN 1 + LeadingCount(Tail(v), c) ELSE 0

\* base58_decode(v, length): raised (ValueError), None (wrong length) or bytes
base58_decode(v, length) ==
    IF \E k \in 1..Len(v) : v[k] \notin 0..(B58 - 1)
    THEN [raised |-> TRUE, is_none |-> FALSE, bytes |-> <<>>]
    ELSE LET long_value == FromDigitsBig(v, B58)
             n_pad == LeadingCount(v, 0)
             result == DigitsLittle(long_value, ByteBase) \o Zeros(n_pad) IN
         IF Len(result) # length
         THEN [raised |-> FALSE, is_none |-> TRUE, bytes |-> <<>>]
         ELSE [raised |-> FALSE, is_none |-> FALSE, bytes |-> Reverse(result)]

base_encode(v) ==
    LET long_value == from_bytes_big(v)
        n_pad == LeadingCount(v, 0) IN
    Reverse(DigitsLittle(long_value, B58) \o Zeros(n_pad))

b58_address_to_hash160(addr) ==
    LET d == base58_decode(addr, AddrLen) IN
    IF d.raised THEN Raise("ValueError")
    ELSE IF d.is_none THEN Raise("TypeError")
    ELSE IF Len(d.bytes) # PayloadLen
    THEN Raise("expected 21 payload bytes in base58 address")
    ELSE Ok(<<d.bytes[1], SubSeq(d.bytes, 2, PayloadLen)>>)

hash160_to_b58_address(h160) ==
    LET s == <<0>> \o h160 IN
    base_encode(s \o SubSeq(sha256d(s), 1, ChecksumLen))

\* OP_DUP OP_HASH160 <hash> OP_EQUALVERIFY OP_CHECKSIG; the opcodes of
\* script.py (not in the sources) are kept as distinct bytes
address_to_script(addr) ==
    LET a == b58_address_to_hash160(addr) IN
    IF ~a.ok THEN a ELSE Ok(<<1, 2>> \o a.val[2] \o <<3, 4>>)

(***************************************************************************)
(* The difficulty engine: get_target (block.py).  config.py is not in the  *)
(* sources; its two values are small stand-ins for 2016 blocks and two     *)
(* weeks.                                                                  *)
(***************************************************************************)
retarget_block_count == 3
retarget_time_span == 8

\* 0x0000ffff << 224: mantissa 0x00ffff at the largest exponent
max_target == (Pow(ByteBase, 2) - 1) * Pow(ByteBase, MaxBitsN - MinBitsN)

\* blocks[-k] of a Python list (blocks[-0] is blocks[0])
NegIndexOk(blocks, k) == IF k = 0 THEN Len(blocks) >= 1 ELSE k <= Len(blocks)
NegIndex(blocks, k) == IF k = 0 THEN blocks[1] ELSE blocks[Len(blocks) + 1 - k]

\* min(max_target, .), the ceiling of line 135
CapTargetOff(t) == t
CapTarget(t) == Min(max_target, t)

ClampTimespan(n_actual_timespan) ==
    Min(Max(n_actual_timespan, retarget_time_span \div 4), retarget_time_span * 4)

\* blocks[-(retarget_block_count-1)]
FirstOfWindowOff(blocks) == NegIndex(blocks, retarget_block_count)
FirstOfWindow(blocks) == NegIndex(blocks, retarget_block_count - 1)

get_target(blocks) ==
    IF Len(blocks) % retarget_block_count = 0
    THEN IF ~NegIndexOk(blocks, retarget_block_count - 1) THEN Raise("IndexError")
         ELSE LET first == FirstOfWindow(blocks)
                  last == NegIndex(blocks, 1)
                  cur_target == bits_to_target(last.bits) IN
              IF ~cur_target.ok THEN cur_target
              ELSE LET n_actual_timespan == ClampTimespan(last.time - first.time)
                       new_target == CapTarget((cur_target.val * n_actual_timespan)
                                                   \div retarget_time_span) IN
                   bits_to_target(target_to_bits(new_target))
    ELSE bits_to_target(NegIndex(blocks, 1).bits)

(***************************************************************************)
(* The mining engine (mining.py).                                          *)
(*   op            the entry point running: create_genesis_block or        *)
(*                 create_block                                            *)
(*   pc            idle | call (mining_block is entered) | loop | after    *)
(*                 (the for loop is left) | returned | error               *)
(*   ledger        the blocks load_blocks() returns                        *)
(*   block         the candidate block, mutated in place by the search     *)
(*   target, start, i, nonce_found   the locals of the running attempt     *)
(*   depth         mining_block frames below the running one               *)
(*   tried         history: the nonces the running attempt has hashed      *)
(*   exhausted     history: the attempts of the running call that ran out  *)
(*                 of nonces                                               *)
(***************************************************************************)
mining_vars ==
    <<op, pc, err, ledger, block, target, start, i, nonce_found, depth, tried, exhausted>>

NoBlock ==
    [version |-> 0, hash_prev_block |-> <<>>, hash_merkle_root |-> <<>>,
     time |-> 0, bits |-> 0, nonce |-> 0, transactions |-> <<>>]

\* inputs of the entry points
Messages == {<<1>>, <<2, 1>>}
Rewards == {5}
BitsSpread == 6
GenesisBits ==
    {CompactBits(MinBitsN - 1, MinBitsBase), CompactBits(MinBitsN, MaxBitsBase)}
        \cup {CompactBits(MinBitsN, MinBitsBase + k) : k \in 0..BitsSpread}
SampleH160 == {Zeros(Hash160Len), [k \in 1..Hash160Len |-> k]}
ReceiveAddresses == {hash160_to_b58_address(h) : h \in SampleH160}

\* the public key script of the genesis output (shortened)
GenesisScriptPubkey == <<4, 1, 0, 4>>
\* script.py is not in the sources: a short length or height is pushed as one byte
script_int_to_bytes(n) == to_bytes_little(n, 1)
script_int_to_bytes_contain_opcode(n) == <<1>> \o to_bytes_little(n, 1)

\* the parameters of create_coinbase_tx and the arguments create_block passes
CoinbaseParams == {"script_sig", "script_pubkey", "reward"}
CreateBlockCoinbaseArgs == {"script_sig", "script_pubkey"}

\* target > block_hash
QualifiesGe(t, h) == t >= h
Qualifies(t, h) == t > h

\* range(start, 0xffffffff): the nonces the for loop still has to visit
InRange(n) == n < MaxNonce

MiningInit ==
    /\ op = "none"
    /\ pc = "idle"
    /\ err = ""
    /\ ledger = <<>>
    /\ block = NoBlock
    /\ target = 0
    /\ start = 0
    /\ i = 0
    /\ nonce_found = FALSE
    /\ depth = 0
    /\ tried = <<>>
    /\ exhausted = 0

CallMining(b, o) ==
    /\ block' = b
    /\ op' = o
    /\ pc' = "call"
    /\ depth' = 0
    /\ err' = ""
    /\ exhausted' = 0
    /\ UNCHANGED <<ledger, target, start, i, nonce_found, tried>>

Fail(o, e) ==
    /\ op' = o
    /\ pc' = "error"
    /\ err' = e
    /\ UNCHANGED <<ledger, block, target, start, i, nonce_found, depth, tried, exhausted>>

\* create_genesis_block, lines 25-56: the genesis transaction and the
\* candidate block with nonce 0
GenesisCandidate(msg, time, bits, reward) ==
    LET first_bits == to_bytes_little(bits, 4)
        sig == to_bytes_little(Len(first_bits), 1) \o first_bits \o <<1, 4>>
                   \o script_int_to_bytes(Len(msg)) \o msg
        genesis_tx == create_coinbase_tx(sig, GenesisScriptPubkey, reward) IN
    [version |-> 1,
     hash_prev_block |-> Zeros(HashLen),
     hash_merkle_root |-> tx_hash(genesis_tx),
     time |-> time,
     bits |-> bits,
     nonce |-> 0,
     transactions |-> <<genesis_tx>>]

create_genesis_block(msg, time, bits, reward) ==
    /\ pc = "idle"
    /\ ledger = <<>>
    /\ CallMining(GenesisCandidate(msg, time, bits, reward), "create_genesis_block")

create_block(height, receive_address, now_time) ==
    /\ pc = "idle"
    /\ ledger # <<>>
    /\ LET sig == script_int_to_bytes_contain_opcode(height) \o <<0>>
           pubkey == address_to_script(receive_address)
           bits == get_target(ledger) IN
       IF ~pubkey.ok THEN Fail("create_block", pubkey.err)
       ELSE IF CreateBlockCoinbaseArgs # CoinbaseParams
       THEN Fail("create_block", "TypeError")
       ELSE IF ~bits.ok THEN Fail("create_block", bits.err)
       ELSE LET coinbase_tx == create_coinbase_tx(sig, pubkey.val, 0) IN
            CallMining([version |-> 1,
                        hash_prev_block |-> Zeros(HashLen),
                        hash_merkle_root |-> tx_hash(coinbase_tx),
                        time |-> now_time,
                        bits |-> bits.val,
                        nonce |-> 0,
                        transactions |-> <<coinbase_tx>>], "create_block")

\* mining_block, lines 109-113: decode the target, draw the start
mining_enter(s) ==
    /\ pc = "call"
    /\ LET t == bits_to_target(block.bits) IN
       IF ~t.ok
       THEN /\ pc' = "error"
            /\ err' = t.err
            /\ UNCHANGED <<target, start, i, nonce_found, tried>>
       ELSE /\ target' = t.val
            /\ start' = s
            /\ i' = s
            /\ nonce_found' = FALSE
            /\ tried' = <<>>
            /\ pc' = "loop"
            /\ UNCHANGED err
    /\ UNCHANGED <<op, ledger, block, depth, exhausted>>

\* one iteration of the for loop, lines 115-124
mining_step ==
    /\ pc = "loop"
    /\ InRange(i)
    /\ block' = [block EXCEPT !.nonce = i]
    /\ tried' = Append(tried, i)
    /\ IF Qualifies(target, block_hash_int(block'))
       THEN nonce_found' = TRUE /\ pc' = "after" /\ UNCHANGED i
       ELSE i' = i + 1 /\ UNCHANGED <<nonce_found, pc>>
    /\ UNCHANGED <<op, err, ledger, target, start, depth, exhausted>>

\* the range is exhausted
mining_exhausted ==
    /\ pc = "loop"
    /\ ~InRange(i)
    /\ pc' = "after"
    /\ exhausted' = exhausted + 1
    /\ UNCHANGED <<op, err, ledger, block, target, start, i, nonce_found, depth, tried>>

\* lines 127-128: return mining_block(block), one frame deeper
mining_restart ==
    /\ pc = "after"
    /\ ~nonce_found
    /\ IF depth + 1 >= RecursionLimit
       THEN pc' = "error" /\ err' = "RecursionError" /\ UNCHANGED depth
       ELSE pc' = "call" /\ depth' = depth + 1 /\ UNCHANGED err
    /\ UNCHANGED <<op, ledger, block, target, start, i, nonce_found, tried, exhausted>>

\* line 129: return block
mining_return ==
    /\ pc = "after"
    /\ nonce_found
    /\ pc' = "returned"
    /\ UNCHANGED <<op, err, ledger, block, target, start, i, nonce_found, depth, tried,
                   exhausted>>

\* the caller appends the mined block to the ledger (dump_blocks)
append_block ==
    /\ pc = "returned"
    /\ ledger' = Append(ledger, block)
    /\ pc' = "idle"
    /\ UNCHANGED <<op, err, block, target, start, i, nonce_found, depth, tried, exhausted>>


(***************************************************************************)
(* Hex strings (binascii.a2b_hex, bytes.hex): a string is a sequence of    *)
(* hex digits, the value HexBase standing for a character that is no hex   *)
(* digit.                                                                  *)
(***************************************************************************)
HexOk(h) == Len(h) % 2 = 0 /\ \A k \in 1..Len(h) : h[k] \in 0..(HexBase - 1)
a2b_hex(h) == [k \in 1..(Len(h) \div 2) |-> h[2 * k - 1] * HexBase + h[2 * k]]
hex(b) == ConcatAll([k \in 1..Len(b) |-> <<b[k] \div HexBase, b[k] % HexBase>>])

(***************************************************************************)
(* Block.from_dict (block.py) with Tx.from_dict, TxIn.from_dict,           *)
(* TxOut.from_dict and OutPoint.from_dict (tx.py).  A record is the        *)
(* dictionary read from the ledger file: hashes and scripts in hex, block  *)
(* hashes in reversed byte order.                                          *)
(***************************************************************************)
OutPoint_from_dict(op_data) ==
    [tx_hash |-> a2b_hex(op_data.tx_hash), index |-> op_data.index]

TxIn_from_dict(tx_in_data) ==
    [outpoint |-> OutPoint_from_dict(tx_in_data.outpoint),
     script_sig |-> a2b_hex(tx_in_data.script_sig),
     sequence |-> tx_in_data.sequence]

TxOut_from_dict(tx_out_data) ==
    [value |-> tx_out_data.value, script_pubkey |-> a2b_hex(tx_out_data.script_pubkey)]

Tx_from_dict(tx_data) ==
    [version |-> tx_data.version,
     tx_ins |-> [k \in 1..Len(tx_data.tx_ins) |-> TxIn_from_dict(tx_data.tx_ins[k])],
     tx_outs |-> [k \in 1..Len(tx_data.tx_outs) |-> TxOut_from_dict(tx_data.tx_outs[k])],
     locktime |-> tx_data.locktime]

\* every hex field of a transaction record decodes
TxDictHexOk(tx_data) ==
    /\ \A k \in 1..Len(tx_data.tx_ins) :
           /\ HexOk(tx_data.tx_ins[k].outpoint.tx_hash)
           /\ HexOk(tx_data.tx_ins[k].script_sig)
    /\ \A k \in 1..Len(tx_data.tx_outs) : HexOk(tx_data.tx_outs[k].script_pubkey)

\* the argument block_hash: None, a str (hex digits) or bytes
NoneHash == [kind |-> "None", v |-> <<>>]
StrHash(h) == [kind |-> "str", v |-> h]
BytesHash(b) == [kind |-> "bytes", v |-> b]

\* `if block_hash:` -- None, "" and b"" are all false
Truthy(expected_hash) == expected_hash.kind # "None" /\ Len(expected_hash.v) > 0

ShapedBlock(d) ==
    [version |-> d.version,
     hash_prev_block |-> Reverse(a2b_hex(d.hash_prev_block)),
     hash_merkle_root |-> Reverse(a2b_hex(d.hash_merkle_root)),
     time |-> d.time,
     bits |-> d.bits,
     nonce |-> d.nonce,
     transactions |-> [k \in 1..Len(d.transactions) |-> Tx_from_dict(d.transactions[k])]]

\* block_hash[::-1] != block_hash_by_dict
HashMismatch(given, block_hash_by_dict) == Reverse(given) # block_hash_by_dict

Block_from_dict(d, expected_hash) ==
    IF ~(HexOk(d.hash_prev_block) /\ HexOk(d.hash_merkle_root)
           /\ \A k \in 1..Len(d.transactions) : TxDictHexOk(d.transactions[k]))
    THEN Raise("binascii.Error")
    ELSE LET b == ShapedBlock(d) IN
         IF ~Truthy(expected_hash) THEN Ok(b)
         ELSE LET block_hash_by_dict == block_hash(b) IN
              IF expected_hash.kind = "str" /\ ~HexOk(expected_hash.v)
              THEN Raise("binascii.Error")
              ELSE LET given == IF expected_hash.kind = "str"
                                THEN a2b_hex(expected_hash.v) ELSE expected_hash.v IN
                   IF HashMismatch(given, block_hash_by_dict)
                   THEN Raise("Block data is invalid!")
                   ELSE Ok(b)

\* the record of a transaction and of a block, as the ledger file holds them
TxRecord(tx) ==
    [version |-> tx.version,
     tx_ins |-> [k \in 1..Len(tx.tx_ins) |->
                    [outpoint |-> [tx_hash |-> hex(tx.tx_ins[k].outpoint.tx_hash),
                                   index |-> tx.tx_ins[k].outpoint.index],
                     script_sig |-> hex(tx.tx_ins[k].script_sig),
                     sequence |-> tx.tx_ins[k].sequence]],
     tx_outs |-> [k \in 1..Len(tx.tx_outs) |->
                     [value |-> tx.tx_outs[k].value,
                      script_pubkey |-> hex(tx.tx_outs[k].script_pubkey)]],
     locktime |-> tx.locktime]

BlockRecord(b) ==
    [version |-> b.version,
     hash_prev_block |-> hex(Reverse(b.hash_prev_block)),
     hash_merkle_root |-> hex(Reverse(b.hash_merkle_root)),
     time |-> b.time,
     bits |-> b.bits,
     nonce |-> b.nonce,
     transactions |-> [k \in 1..Len(b.transactions) |-> TxRecord(b.transactions[k])]]

SeqsUpTo(A, n) == UNION {[1..m -> A] : m \in 0..n}

\* inputs of from_dict: the records of a few blocks, and as expected hash
\* None, every hex string of up to a digest's length, one string with a
\* character that is no hex digit, and every bytes value of up to a
\* digest's length
SampleRecords ==
    {BlockRecord([GenesisCandidate(m, 0, CompactBits(MinBitsN, MaxBitsBase), 5)
                      EXCEPT !.nonce = n]) : m \in Messages, n \in 0..1}
ExpectedHashes ==
    {NoneHash, StrHash([k \in 1..(2 * HashLen) |-> HexBase])}
        \cup {StrHash(h) : h \in SeqsUpTo(0..(HexBase - 1), 2 * HashLen)}
        \cup {BytesHash(b) : b \in SeqsUpTo(Byte, HashLen)}

Pending == [ok |-> FALSE, val |-> 0, err |-> "pending"]

FromDictInit ==
    /\ fd_dict \in SampleRecords
    /\ fd_block_hash \in ExpectedHashes
    /\ fd_result = Pending

FromDictIdle ==
    /\ fd_dict = <<>>
    /\ fd_block_hash = NoneHash
    /\ fd_result = Pending

from_dict_vars == <<fd_dict, fd_block_hash, fd_result>>

from_dict ==
    /\ fd_result = Pending
    /\ fd_result' = Block_from_dict(fd_dict, fd_block_hash)
    /\ UNCHANGED <<fd_dict, fd_block_hash>>

(***************************************************************************)
(* The claim about Block.from_dict, checked under SpecFromDict.            *)
(***************************************************************************)
\* the expected hash as bytes, when it is bytes or a well-formed hex string
GivenDecodes == fd_block_hash.kind = "bytes" \/ HexOk(fd_block_hash.v)
GivenBytes == IF fd_block_hash.kind = "str" THEN a2b_hex(fd_block_hash.v) ELSE fd_block_hash.v
GivenMatches ==
    GivenDecodes /\ Reverse(GivenBytes) = block_hash(ShapedBlock(fd_dict))

\* C5: from_dict called with an expected hash (hex string or bytes, in
\* reversed order) that differs from the recomputed header hash fails and
\* returns no Block; it returns the Block when the byte-reversed expected hash
\* equals the recomputed hash.  Every provided mismatching value is rejected.
C5_MismatchRejected ==
    (fd_result # Pending /\ fd_block_hash.kind # "None") =>
        /\ GivenMatches => fd_result = Ok(ShapedBlock(fd_dict))
        /\ ~GivenMatches => ~fd_result.ok

(***************************************************************************)
(* Claims about the mining engine, checked under Spec.                     *)
(***************************************************************************)
\* the target of the candidate block, when its bits decode
DecodedTarget == bits_to_target(block.bits)

C2_AttemptCoversRange ==
    pc \in {"loop", "after"} =>
        /\ \A k \in 1..Len(tried) : tried[k] = start + k - 1
        /\ (pc = "after" /\ ~nonce_found) =>
               \A n \in start..MaxNonce : \E k \in 1..Len(tried) : tried[k] = n

\* C3: once an attempt has been exhausted the engine restarts; no error is
\* ever surfaced to the caller, whatever the number of exhausted attempts.
C3_NoErrorAfterExhaustion ==
    exhausted >= 1 => pc # "error"

\* every nonce of the candidate block hashes below the decoded target
AllQualify ==
    /\ DecodedTarget.ok
    /\ \A n \in 0..MaxNonce :
           Qualifies(DecodedTarget.val, block_hash_int([block EXCEPT !.nonce = n]))

\* C4: with a target every header hash satisfies, mining_block ends within
\* one attempt, for every start: no attempt is exhausted, no restart taken,
\* and the call ends by returning a block whose hash is below the target.
C4_OneAttemptSuffices ==
    (op # "none" /\ pc \in {"loop", "after", "returned", "error"} /\ AllQualify) =>
        /\ exhausted = 0
        /\ depth = 0
        /\ pc # "error"
        /\ pc = "returned" => block_hash_int(block) < DecodedTarget.val

\* C8: create_block ends by returning a block mined against the difficulty
\* engine's target for the loaded ledger: its header hash is below
\* get_target(ledger) and its bits decode to that same target.
C8_CreateBlockMinesAgainstTarget ==
    (op = "create_block" /\ pc \in {"returned", "error"}) =>
        /\ pc = "returned"
        /\ get_target(ledger).ok
        /\ block_hash_int(block) < get_target(ledger).val
        /\ bits_to_target(block.bits) = get_target(ledger)

\* C12: in every ledger built by create_genesis_block and then appended
\* create_block results, the first block and no other has an all-zero
\* hash_prev_block, and every later block's hash_prev_block is block_hash()
\* of the block before it; so create_block, called on a ledger, ends by
\* returning a block whose hash_prev_block is block_hash() of the ledger's
\* last block.
C12_LedgerChained ==
    /\ \A k \in 1..Len(ledger) :
           (ledger[k].hash_prev_block = Zeros(HashLen)) <=> (k = 1)
    /\ \A k \in 2..Len(ledger) :
           ledger[k].hash_prev_block = block_hash(ledger[k - 1])
    /\ (op = "create_block" /\ pc \in {"returned", "error"}) =>
           /\ pc = "returned"
           /\ block.hash_prev_block = block_hash(ledger[Len(ledger)])

(***************************************************************************)
(* get_target on ledgers of up to one block past the retarget boundary.    *)
(* The ledger grows block by block (the blocks may come from any writer of *)
(* the ledger file); get_target reads only bits and time.                  *)
(***************************************************************************)
MaxLedger == retarget_block_count + 1

\* decodable bits: the smallest target, a full mantissa that retargeting has
\* to truncate, max_target itself, and the largest decodable target
LedgerBits ==
    {CompactBits(MinBitsN, MinBitsBase),
     CompactBits(MinBitsN + 1, MaxBitsBase),
     CompactBits(MaxBitsN, Pow(ByteBase, 2) - 1),
     CompactBits(MaxBitsN, MaxBitsBase)}

\* timestamps, equal, increasing and decreasing, that give timespans below,
\* inside and above the clamp
LedgerTimes == {0, 3, retarget_time_span, 5 * retarget_time_span}

TargetInit ==
    /\ gt_blocks = <<>>
    /\ gt_result = Pending

TargetIdle == TargetInit

target_vars == <<gt_blocks, gt_result>>

\* a block is appended to the ledger
ledger_append(bits, time) ==
    /\ Len(gt_blocks) < MaxLedger
    /\ gt_blocks' = Append(gt_blocks, [NoBlock EXCEPT !.bits = bits, !.time = time])
    /\ gt_result' = Pending

call_get_target ==
    /\ gt_result = Pending
    /\ gt_result' = get_target(gt_blocks)
    /\ UNCHANGED gt_blocks


(***************************************************************************)
(* Claims about get_target, checked under SpecTarget.                      *)
(***************************************************************************)
Boundary == Len(gt_blocks) % retarget_block_count = 0
LastBlock == gt_blocks[Len(gt_blocks)]
LastTarget == bits_to_target(LastBlock.bits)

\* C6 as claimed: for every non-empty ledger with decodable bits the target
\* get_target returns never exceeds max_target, at a retarget boundary and
\* between boundaries.
C6_NeverAboveMax ==
    (gt_blocks # <<>> /\ gt_result.ok) => gt_result.val <= max_target

\* C6 as amended: at a retarget boundary the target get_target returns never
\* exceeds max_target; between boundaries it returns a target that exceeds
\* max_target exactly when the last block's bits decode above it.
C6_CeilingAtBoundary ==
    (gt_blocks # <<>> /\ gt_result # Pending) =>
        /\ (Boundary /\ gt_result.ok) => gt_result.val <= max_target
        /\ ~Boundary =>
               /\ gt_result.ok
               /\ gt_result.val <= max_target <=> LastTarget.val <= max_target

\* a retarget from a last block above max_target, brought back under it
C6_Witness ==
    /\ Boundary
    /\ gt_blocks # <<>>
    /\ gt_result.ok
    /\ LastTarget.val > max_target
    /\ gt_result.val <= max_target

\* the first block of the last retarget_block_count - 1 blocks
WindowFirst ==
    SubSeq(gt_blocks, Len(gt_blocks) - (retarget_block_count - 1) + 1, Len(gt_blocks))[1]

\* last.time - first.time clamped to [expected/4, expected*4]
ClampedSpan ==
    LET c == LastBlock.time - WindowFirst.time IN
    IF c < retarget_time_span \div 4 THEN retarget_time_span \div 4
    ELSE IF c > retarget_time_span * 4 THEN retarget_time_span * 4
    ELSE c

\* min(max_target, floor(current_target * c / expected_timespan))
RetargetValue ==
    LET scaled == (LastTarget.val * ClampedSpan) \div retarget_time_span IN
    IF scaled > max_target THEN max_target ELSE scaled

\* t cut to compact precision: its three leading significant bytes, or two
\* when the third would set the sign bit of the mantissa (t of three or more
\* significant bytes)
CompactTruncation(t) ==
    LET unit == Pow(ByteBase, SignificantBytes(t) - 3) IN
    IF t \div unit >= SignBit
    THEN (t \div (unit * ByteBase)) * (unit * ByteBase)
    ELSE (t \div unit) * unit

merkle_vars == <<mk_pc, mk_leaves, mk_txs, mk_k, mk_one, mk_result, mk_depth, mk_root>>

None == [some |-> FALSE, v |-> <<>>]
Some(x) == [some |-> TRUE, v |-> x]

LeafHashes == {Zeros(HashLen), sha256(<<0>>), sha256(<<1>>)}
LeafLists == SeqsUpTo(LeafHashes, MaxLeaves)

MerkleInit ==
    /\ mk_pc = "idle"
    /\ mk_leaves \in LeafLists
    /\ mk_txs = <<>>
    /\ mk_k = 0
    /\ mk_one = None
    /\ mk_result = <<>>
    /\ mk_depth = 0
    /\ mk_root = <<>>

MerkleIdle ==
    /\ mk_pc = "off"
    /\ mk_leaves = <<>>
    /\ mk_txs = <<>>
    /\ mk_k = 0
    /\ mk_one = None
    /\ mk_result = <<>>
    /\ mk_depth = 0
    /\ mk_root = <<>>

\* result = []; one = txs[0]; the for starts at txs[1]
EnterFrame(txs) ==
    IF txs = <<>>
    THEN /\ mk_pc' = "error"
         /\ UNCHANGED <<mk_txs, mk_k, mk_one, mk_result>>
    ELSE /\ mk_pc' = "loop"
         /\ mk_txs' = txs
         /\ mk_result' = <<>>
         /\ mk_one' = Some(txs[1])
         /\ mk_k' = 2

merkle_call ==
    /\ mk_pc = "idle"
    /\ EnterFrame(mk_leaves)
    /\ UNCHANGED <<mk_leaves, mk_depth, mk_root>>

\* one turn of the for loop
merkle_loop ==
    /\ mk_pc = "loop"
    /\ mk_k <= Len(mk_txs)
    /\ LET tx == mk_txs[mk_k] IN
       IF mk_one.some
       THEN /\ mk_result' = Append(mk_result, sha256d(mk_one.v \o tx))
            /\ mk_one' = None
       ELSE /\ mk_one' = Some(tx)
            /\ UNCHANGED mk_result
    /\ mk_k' = mk_k + 1
    /\ UNCHANGED <<mk_pc, mk_leaves, mk_txs, mk_depth, mk_root>>

\* what the element left over by the for adds to result
OddContributionOff(one, result) ==
    IF one.some THEN Append(result, one.v) ELSE result
OddContribution(one, result) ==
    IF one.some
    THEN IF result # <<>>
         THEN Append(result, sha256d(one.v \o one.v))
         ELSE Append(result, one.v)
    ELSE result

\* the for is over
merkle_tail ==
    /\ mk_pc = "loop"
    /\ mk_k > Len(mk_txs)
    /\ mk_result' = OddContribution(mk_one, mk_result)
    /\ mk_pc' = "check"
    /\ UNCHANGED <<mk_leaves, mk_txs, mk_k, mk_one, mk_depth, mk_root>>

\* return made_merkle_root(result)
merkle_recurse ==
    /\ mk_pc = "check"
    /\ Len(mk_result) >= 2
    /\ EnterFrame(mk_result)
    /\ mk_depth' = mk_depth + 1
    /\ UNCHANGED <<mk_leaves, mk_root>>

\* return result[0], handed down through every frame
merkle_return ==
    /\ mk_pc = "check"
    /\ Len(mk_result) < 2
    /\ IF mk_result = <<>>
       THEN mk_pc' = "error" /\ UNCHANGED mk_root
       ELSE mk_pc' = "returned" /\ mk_root' = mk_result[1]
    /\ mk_depth' = 0
    /\ UNCHANGED <<mk_leaves, mk_txs, mk_k, mk_one, mk_result>>

(***************************************************************************)
(* The claim about made_merkle_root, checked under SpecMerkle.             *)
(***************************************************************************)
double_digest(x) == sha256d(x)

\* one level up: adjacent hashes paired left to right, an unpaired last one
\* paired with itself
NextLevel(level) ==
    [j \in 1..((Len(level) + 1) \div 2) |->
        LET left == level[2 * j - 1]
            right == IF 2 * j <= Len(level) THEN level[2 * j] ELSE left IN
        double_digest(left \o right)]

RECURSIVE MerkleRoot(_)
MerkleRoot(level) ==
    IF Len(level) = 1 THEN level[1] ELSE MerkleRoot(NextLevel(level))

ReturnedRoot ==
    mk_pc = "returned" =>
        /\ mk_root = MerkleRoot(mk_leaves)
        /\ Len(mk_leaves) = 1 => mk_root = mk_leaves[1]
        /\ Len(mk_leaves) = 2 => mk_root = double_digest(mk_leaves[1] \o mk_leaves[2])
        /\ Len(mk_leaves) = 3 =>
               mk_root = double_digest(double_digest(mk_leaves[1] \o mk_leaves[2])
                                       \o double_digest(mk_leaves[3] \o mk_leaves[3]))

\* the steps a call still has to take, bounded from above: a frame over n
\* hashes takes n - 1 turns of the for, then the tail, then the choice of
\* line 46, and hands at most (n + 1) / 2 hashes to the next frame
StepsLeft ==
    CASE mk_pc = "idle" -> 4 * Len(mk_leaves) + 1
      [] mk_pc = "loop" -> 4 * Len(mk_txs) - (mk_k - 2)
      [] mk_pc = "check" -> IF Len(mk_result) >= 2 THEN 4 * Len(mk_result) + 1 ELSE 1
      [] OTHER -> 0

\* C9: made_merkle_root on a non-empty list of leaf hashes raises nothing,
\* terminates (every step it takes lowers StepsLeft, a natural number), and
\* returns the root got by pairing adjacent hashes left to right level by
\* level, an unpaired last hash with itself; root([h]) = h,
\* root([a,b]) = dd(a||b), root([a,b,c]) = dd(dd(a||b) || dd(c||c)).
C9_MerkleRoot ==
    /\ [](mk_leaves # <<>> => (mk_pc # "error" /\ ReturnedRoot))
    /\ [][mk_leaves # <<>> => (StepsLeft' < StepsLeft /\ StepsLeft' >= 0)]_merkle_vars

\* a root of an odd number of leaves, above three, reached through a level
\* that is odd as well
C9_Witness ==
    /\ mk_pc = "returned"
    /\ Len(mk_leaves) = 5
    /\ mk_depth = 0
    /\ mk_root = MerkleRoot(mk_leaves)
    /\ mk_root # mk_leaves[1]

(***************************************************************************)
(* The address codec in use: an address is made from a hash160 or typed    *)
(* in, and then handed to b58_address_to_hash160.                          *)
(***************************************************************************)
address_vars == <<ad_addr, ad_h160, ad_result>>

Hash160s == SeqsUpTo(Byte, Hash160Len) \ SeqsUpTo(Byte, Hash160Len - 1)
Checksums == SeqsUpTo(Byte, ChecksumLen) \ SeqsUpTo(Byte, ChecksumLen - 1)

\* addresses a user can type: a forbidden character, too short, and two
\* version-0 payloads under every checksum
TypedAddresses ==
    {<<B58>>, <<1>>, <<1, 0, 1>>}
        \cup {base_encode(<<0>> \o h \o c) : h \in SampleH160, c \in Checksums}

AddressInit ==
    /\ ad_addr = <<>>
    /\ ad_h160 = None
    /\ ad_result = Pending

AddressIdle == AddressInit

address_made(h160) ==
    /\ ad_addr' = hash160_to_b58_address(h160)
    /\ ad_h160' = Some(h160)
    /\ ad_result' = Pending

address_typed(addr) ==
    /\ ad_addr' = addr
    /\ ad_h160' = None
    /\ ad_result' = Pending

call_b58_address_to_hash160 ==
    /\ ad_result = Pending
    /\ ad_result' = b58_address_to_hash160(ad_addr)
    /\ UNCHANGED <<ad_addr, ad_h160>>

(***************************************************************************)
(* The claim about b58_address_to_hash160, checked under SpecAddress.      *)
(***************************************************************************)
\* addr decodes to AddrLen bytes ending in the checksum of the bytes before
WellFormed(addr) ==
    LET d == base58_decode(addr, AddrLen) IN
    /\ ~d.raised
    /\ ~d.is_none
    /\ SubSeq(d.bytes, PayloadLen + 1, AddrLen)
           = SubSeq(sha256d(SubSeq(d.bytes, 1, PayloadLen)), 1, ChecksumLen)

\* C10: b58_address_to_hash160 accepts an address exactly when it decodes to
\* 25 bytes ending in the checksum of the first 21 and then returns the
\* version byte and the hash, so the address made of h decodes to (0, h);
\* every other address is rejected with the format error.
C10_DecodesWhatEncodeMade ==
    ad_result # Pending =>
        /\ ad_h160.some => ad_result = Ok(<<0, ad_h160.v>>)
        /\ IF WellFormed(ad_addr)
           THEN /\ ad_result.ok
                /\ LET d == base58_decode(ad_addr, AddrLen).bytes IN
                   ad_result.val = <<d[1], SubSeq(d, 2, PayloadLen)>>
           ELSE ad_result = Raise("expected 21 payload bytes in base58 address")

(***************************************************************************)
(* block_hash on a block whose transactions and nonce change between       *)
(* calls.                                                                  *)
(***************************************************************************)
block_hash_vars == <<bh_block, bh_given, bh_hash>>

SampleTxs ==
    {create_coinbase_tx(<<1>>, <<2>>, 5), create_coinbase_tx(<<1, 0>>, <<2>>, 0)}
SampleTxLists == SeqsUpTo(SampleTxs, 2)
SampleDigests == {Zeros(HashLen), sha256(<<0>>)}
SampleBlocks ==
    {[version |-> 1, hash_prev_block |-> p, hash_merkle_root |-> r, time |-> t,
      bits |-> b, nonce |-> n, transactions |-> txs] :
        p \in SampleDigests, r \in SampleDigests, t \in {0, MaxTime},
        b \in {CompactBits(MinBitsN, MinBitsBase)},
        n \in 0..MaxNonce, txs \in SampleTxLists}

BlockHashInit ==
    /\ bh_block \in SampleBlocks
    /\ bh_given = NoBlock
    /\ bh_hash = Pending

BlockHashIdle ==
    /\ bh_block = NoBlock
    /\ bh_given = NoBlock
    /\ bh_hash = Pending

\* the owner of the block replaces its transactions
set_transactions(txs) ==
    /\ txs # bh_block.transactions
    /\ bh_block' = [bh_block EXCEPT !.transactions = txs]
    /\ UNCHANGED <<bh_given, bh_hash>>

\* block.nonce = i
set_nonce(n) ==
    /\ n # bh_block.nonce
    /\ bh_block' = [bh_block EXCEPT !.nonce = n]
    /\ UNCHANGED <<bh_given, bh_hash>>

\* block.block_hash(): reads the fields, assigns none
call_block_hash ==
    /\ bh_given' = bh_block
    /\ bh_hash' = Ok(block_hash(bh_block))
    /\ UNCHANGED bh_block

(***************************************************************************)
(* The claim about block_hash, checked under SpecBlockHash.                *)
(***************************************************************************)
Header(b) ==
    <<b.version, b.hash_prev_block, b.hash_merkle_root, b.time, b.bits, b.nonce>>

\* C11: block_hash() depends only on the six header fields: a block with the
\* header of the block that was hashed has the hash that call gave, whatever
\* its transactions; and a step that computes the hash leaves every field of
\* the block unchanged.
C11_HashOfHeaderOnly ==
    /\ []((bh_hash # Pending /\ Header(bh_block) = Header(bh_given)) =>
              Ok(block_hash(bh_block)) = bh_hash)
    /\ [][(bh_hash' # bh_hash \/ bh_given' # bh_given) => bh_block' = bh_block]_block_hash_vars

\* the block was hashed, and its transactions were replaced since
C11_Witness ==
    /\ bh_hash # Pending
    /\ Header(bh_block) = Header(bh_given)
    /\ bh_block.transactions # bh_given.transactions
    /\ bh_block.transactions # <<>>

MiningIdle ==
    /\ op = "none"
    /\ pc = "off"
    /\ err = ""
    /\ ledger = <<>>
    /\ block = NoBlock
    /\ target = 0
    /\ start = 0
    /\ i = 0
    /\ nonce_found = FALSE
    /\ depth = 0
    /\ tried = <<>>
    /\ exhausted = 0

vars ==
    <<mining_vars, from_dict_vars, target_vars, merkle_vars, address_vars, block_hash_vars>>

\* the mining engine: create_genesis_block, create_block, mining_block
MiningOnly ==
    UNCHANGED <<from_dict_vars, target_vars, merkle_vars, address_vars, block_hash_vars>>

Init == MiningInit /\ FromDictIdle /\ TargetIdle /\ MerkleIdle /\ AddressIdle /\ BlockHashIdle

Next ==
    \/ \E msg \in Messages, time \in 0..MaxTime, bits \in GenesisBits, reward \in Rewards :
           create_genesis_block(msg, time, bits, reward) /\ MiningOnly
    \/ \E a \in ReceiveAddresses, now_time \in 0..MaxTime :
           create_block(Len(ledger), a, now_time) /\ MiningOnly
    \/ \E s \in 0..MaxNonce : mining_enter(s) /\ MiningOnly
    \/ mining_step /\ MiningOnly
    \/ mining_exhausted /\ MiningOnly
    \/ mining_restart /\ MiningOnly
    \/ mining_return /\ MiningOnly
    \/ append_block /\ MiningOnly

Spec == Init /\ [][Next]_vars

\* Block.from_dict on a record and an expected hash
InitFromDict ==
    FromDictInit /\ MiningIdle /\ TargetIdle /\ MerkleIdle /\ AddressIdle /\ BlockHashIdle

NextFromDict ==
    from_dict
        /\ UNCHANGED <<mining_vars, target_vars, merkle_vars, address_vars, block_hash_vars>>

SpecFromDict == InitFromDict /\ [][NextFromDict]_vars

\* get_target on a growing ledger
TargetOnly ==
    UNCHANGED <<mining_vars, from_dict_vars, merkle_vars, address_vars, block_hash_vars>>

InitTarget == TargetInit /\ MiningIdle /\ FromDictIdle /\ MerkleIdle /\ AddressIdle /\ BlockHashIdle

NextTarget ==
    \/ \E b \in LedgerBits, t \in LedgerTimes : ledger_append(b, t) /\ TargetOnly
    \/ call_get_target /\ TargetOnly

SpecTarget == InitTarget /\ [][NextTarget]_vars

\* made_merkle_root on a list of leaf hashes
MerkleOnly ==
    UNCHANGED <<mining_vars, from_dict_vars, target_vars, address_vars, block_hash_vars>>

InitMerkle == MerkleInit /\ MiningIdle /\ FromDictIdle /\ TargetIdle /\ AddressIdle /\ BlockHashIdle

NextMerkle ==
    \/ merkle_call /\ MerkleOnly
    \/ merkle_loop /\ MerkleOnly
    \/ merkle_tail /\ MerkleOnly
    \/ merkle_recurse /\ MerkleOnly
    \/ merkle_return /\ MerkleOnly

SpecMerkle == InitMerkle /\ [][NextMerkle]_vars

\* addresses made and typed, then decoded
AddressOnly ==
    UNCHANGED <<mining_vars, from_dict_vars, target_vars, merkle_vars, block_hash_vars>>

InitAddress ==
    AddressInit /\ MiningIdle /\ FromDictIdle /\ TargetIdle /\ MerkleIdle /\ BlockHashIdle

NextAddress ==
    \/ \E h \in Hash160s : address_made(h) /\ AddressOnly
    \/ \E a \in TypedAddresses : address_typed(a) /\ AddressOnly
    \/ call_b58_address_to_hash160 /\ AddressOnly

SpecAddress == InitAddress /\ [][NextAddress]_vars

\* block_hash on blocks whose owner changes them between calls
BlockHashOnly ==
    UNCHANGED <<mining_vars, from_dict_vars, target_vars, merkle_vars, address_vars>>

InitBlockHash ==
    BlockHashInit /\ MiningIdle /\ FromDictIdle /\ TargetIdle /\ MerkleIdle /\ AddressIdle

NextBlockHash ==
    \/ \E txs \in SampleTxLists : set_transactions(txs) /\ BlockHashOnly
    \/ \E n \in 0..MaxNonce : set_nonce(n) /\ BlockHashOnly
    \/ call_block_hash /\ BlockHashOnly

SpecBlockHash == InitBlockHash /\ [][NextBlockHash]_vars

=============================================================================
